---- MODULE Spec2Model ----
(***************************************************************************)
(* tinytui: the compression pipeline (internal/pipeline/pipeline.go) and   *)
(* the service client's retry loops (internal/tinify/client.go).           *)
(*                                                                         *)
(* Four specifications share the module:                                   *)
(*   Spec        the Pipeline: AddFiles, Start, Pause/Resume, Stop, the    *)
(*               worker loops and process with its file operations;        *)
(*   SpecClient  one call of Client.Compress: the upload and download      *)
(*               retry loops;                                              *)
(*   SpecLife    the life cycle of the Pipeline under the scheduling of    *)
(*               its goroutines;                                           *)
(*   SpecWorkers the dispatch of jobs to a configured number of workers.   *)
(***************************************************************************)
EXTENDS Integers, Sequences, FiniteSets, TLC

VARIABLES
    jobs,           \* p.jobs: the job list, in creation order
    queue,          \* p.queue: buffered channel of jobs (indexes into jobs)
    overflow,       \* feeder goroutines blocked on "p.queue <- j"
    updates,        \* p.updates: buffered channel of job pointers
    updatesClosed,  \* close(p.updates) has run
    isPaused,       \* p.isPaused
    cancelled,      \* p.ctx is cancelled
    started,        \* Start has been called
    stopPc,         \* position of the Stop call
    wk,             \* per worker: position in worker/process and its locals
    config,         \* p.config: the output policy fields
    fs,             \* the files at the source and destination paths
    tmp,            \* the temp file created for each job
    panicked,       \* a goroutine panicked (send on or close of a closed channel)
    cl,             \* one Compress call of the service client
    workerCount,    \* p.workerCount
    cmd,            \* one run of the compress command and its Pipeline
    call            \* a call of Scan, Load or ShouldShowMascot: its
                    \* arguments and its result

vars == << jobs, queue, overflow, updates, updatesClosed, isPaused, cancelled,
           started, stopPc, wk, config, fs, tmp, panicked, cl, workerCount, cmd, call >>

pipeVars == << jobs, queue, overflow, updates, updatesClosed, isPaused,
               cancelled, started, stopPc, wk, config, fs, tmp, panicked,
               workerCount >>

----------------------------------------------------------------------------
(* Bounds of the model *)

\* jobs created over a run
MaxJobs == 2
\* capacity of the job queue (1000 in the program)
QueueCap == 1
\* capacity of the update stream (100 in the program)
UpdCap == 1
\* capacity of the update stream of the compress command's Pipeline
CmdUpdCap == 2
\* paths given to one call of Scan
MaxArgs == 2
\* the terminal widths tried: this many columns below and above 100
WidthSpan == 15

----------------------------------------------------------------------------
(* Paths: sequences of one-character strings, handled as path/filepath does *)

Sep == "/"
Dot == "."

EmptyPath == << >>

\* index of the last separator of s, 0 when there is none
LastSep(s) ==
    LET idx == {i \in 1..Len(s) : s[i] = Sep}
    IN  IF idx = {} THEN 0 ELSE CHOOSE i \in idx : \A k \in idx : k <= i

\* filepath.Ext: from the last dot of the last element; empty when none
Ext(path) ==
    LET dots == {i \in (LastSep(path) + 1)..Len(path) : path[i] = Dot}
    IN  IF dots = {} THEN EmptyPath
        ELSE SubSeq(path, CHOOSE i \in dots : \A k \in dots : k <= i, Len(path))

HasSuffix(s, suf) ==
    /\ Len(suf) <= Len(s)
    /\ SubSeq(s, Len(s) - Len(suf) + 1, Len(s)) = suf

\* strings.TrimSuffix
TrimSuffix(s, suf) ==
    IF HasSuffix(s, suf) THEN SubSeq(s, 1, Len(s) - Len(suf)) ELSE s

RECURSIVE StripTrailingSeps(_)
StripTrailingSeps(s) ==
    IF Len(s) > 0 /\ s[Len(s)] = Sep
    THEN StripTrailingSeps(SubSeq(s, 1, Len(s) - 1))
    ELSE s

\* filepath.Base
Base(path) ==
    IF path = EmptyPath THEN << Dot >>
    ELSE LET p == StripTrailingSeps(path)
             b == SubSeq(p, LastSep(p) + 1, Len(p))
         IN  IF b = EmptyPath THEN << Sep >> ELSE b

\* the elements of s between separators (empty elements included)
RECURSIVE SplitPath(_)
SplitPath(s) ==
    LET idx == {i \in 1..Len(s) : s[i] = Sep}
    IN  IF idx = {} THEN << s >>
        ELSE LET i == CHOOSE x \in idx : \A k \in idx : x <= k
             IN  << SubSeq(s, 1, i - 1) >> \o SplitPath(SubSeq(s, i + 1, Len(s)))

DotDot == << Dot, Dot >>

\* the element stack of filepath.Clean after reading elems
RECURSIVE CleanElems(_, _, _)
CleanElems(elems, acc, rooted) ==
    IF elems = << >> THEN acc
    ELSE LET e == Head(elems)
             rest == Tail(elems)
         IN  IF e = EmptyPath \/ e = << Dot >>
             THEN CleanElems(rest, acc, rooted)
             ELSE IF e = DotDot
             THEN IF Len(acc) > 0 /\ acc[Len(acc)] # DotDot
                  THEN CleanElems(rest, SubSeq(acc, 1, Len(acc) - 1), rooted)
                  ELSE IF rooted
                  THEN CleanElems(rest, acc, rooted)
                  ELSE CleanElems(rest, Append(acc, e), rooted)
             ELSE CleanElems(rest, Append(acc, e), rooted)

RECURSIVE JoinElems(_)
JoinElems(elems) ==
    IF elems = << >> THEN EmptyPath
    ELSE IF Len(elems) = 1 THEN elems[1]
    ELSE elems[1] \o << Sep >> \o JoinElems(Tail(elems))

\* filepath.Clean
Clean(path) ==
    IF path = EmptyPath THEN << Dot >>
    ELSE LET rooted == path[1] = Sep
             body == JoinElems(CleanElems(SplitPath(path), << >>, rooted))
         IN  IF rooted THEN << Sep >> \o body
             ELSE IF body = EmptyPath THEN << Dot >> ELSE body

\* filepath.Join of two elements: empty elements are ignored, the rest is
\* joined by a separator and cleaned
Join(a, b) ==
    IF a = EmptyPath /\ b = EmptyPath THEN EmptyPath
    ELSE IF a = EmptyPath THEN Clean(b)
    ELSE IF b = EmptyPath THEN Clean(a)
    ELSE Clean(a \o << Sep >> \o b)

\* filepath.Dir
Dir(path) == Clean(SubSeq(path, 1, LastSep(path)))

----------------------------------------------------------------------------
(* The output policy and the destination path of process *)

ModeReplace == "replace"
ModeDirectory == "directory"

Policy(mode, dir, suffix) == [OutputMode |-> mode, OutputDir |-> dir, Suffix |-> suffix]

\* finalPath of process: empty unless OutputMode is "replace"
FinalPath(cfg, filePath) ==
    IF cfg.OutputMode = ModeReplace
    THEN IF cfg.OutputDir # EmptyPath
         THEN LET base == Base(filePath)
                  ext == Ext(base)
                  named == IF cfg.Suffix # EmptyPath
                           THEN TrimSuffix(base, ext) \o cfg.Suffix \o ext
                           ELSE base
              IN  Join(cfg.OutputDir, named)
         ELSE IF cfg.Suffix # EmptyPath
              THEN LET ext == Ext(filePath)
                   IN  TrimSuffix(filePath, ext) \o cfg.Suffix \o ext
              ELSE filePath
    ELSE EmptyPath

----------------------------------------------------------------------------
(* Files *)

NoFile == [exists |-> FALSE, data |-> << >>]
File(d) == [exists |-> TRUE, data |-> d]

\* chunk values: 0 is original image data, j >= 1 is data of the result
\* Compress returned for job j, -1 is a hole left by a write past the end
HoleChunk == 0 - 1

\* an original image, and the result Compress returns for job j: two chunks
Orig == << 0, 0 >>
Result(j) == << j, j >>
Chunks == Len(Orig)

\* a write of chunk v at position pos (1-based) of a file's data
WriteAt(data, pos, v) ==
    IF pos <= Len(data) THEN [data EXCEPT ![pos] = v]
    ELSE data \o [i \in 1..(pos - 1 - Len(data)) |-> HoleChunk] \o << v >>

P1 == << "/", "a", "/", "x", ".", "p" >>
P2 == << "/", "b", "/", "x", ".", "p" >>
DirA == << "/", "a" >>
DirO == << "/", "o" >>
SuffixT == << ".", "t" >>

\* the files handed to AddFiles
Sources == {P1, P2}

\* the output policies of the runs: the default one (same directory, with a
\* suffix); an output directory that is the directory of P1, without suffix,
\* under which P1 is overwritten in place and P2 is written over P1 too;
\* and the "directory" mode the CLI sets with --output-dir
Policies ==
    { Policy(ModeReplace, EmptyPath, SuffixT),
      Policy(ModeReplace, DirA, EmptyPath),
      Policy(ModeDirectory, DirO, EmptyPath) }

FsPaths == (Sources \cup {FinalPath(c, s) : c \in Policies, s \in Sources}) \ {EmptyPath}

----------------------------------------------------------------------------
(* Jobs *)

StatusPending == "pending"
StatusProcessing == "processing"
StatusDone == "done"
StatusFailed == "failed"
StatusCancelled == "cancelled"

NoError == "nil"
\* a non-nil job.Error
JobError == "err"

\* a Job as AddFiles creates it
NewJob(path) == [FilePath |-> path, Status |-> StatusPending, Error |-> NoError]

JobIds(js) == 1..Len(js)

Range(q) == {q[i] : i \in 1..Len(q)}

\* p.workerCount as New sets it
WorkerCount == 2
\* the range Configure keeps p.workerCount in
MinWorkers == 1
MaxWorkers == 4
\* the worker goroutines a Pipeline can have: worker(i), 0 <= i < workerCount
Workers == 1..MaxWorkers

----------------------------------------------------------------------------
(* broadcast: a non-blocking send on p.updates; a send on the closed        *)
(* channel panics                                                           *)

\* A send that always finds room.
Broadcast_unbounded(upd, j) == Append(upd, j)

Broadcast(upd, j) == IF Len(upd) < UpdCap THEN Append(upd, j) ELSE upd

----------------------------------------------------------------------------
(* AddFiles *)

\* The duplicate check with only Pending jobs counted as in flight.
Exists_pendingOnly(js, path) ==
    \E j \in JobIds(js) : js[j].FilePath = path /\ js[j].Status = StatusPending

\* the duplicate check of AddFiles: a job of the path that is neither Done
\* nor Failed
Exists(js, path) ==
    \E j \in JobIds(js) :
        /\ js[j].FilePath = path
        /\ js[j].Status # StatusDone
        /\ js[j].Status # StatusFailed

\* An iteration that gives up the job when the queue is full.
AddPath_dropWhenFull(st, path) ==
    IF Exists(st.jobs, path) THEN st
    ELSE LET j == Len(st.jobs) + 1
             room == Len(st.queue) < QueueCap
         IN  [ jobs |-> Append(st.jobs, NewJob(path)),
               queue |-> IF room THEN Append(st.queue, j) ELSE st.queue,
               overflow |-> st.overflow,
               updates |-> Broadcast(st.updates, j) ]

\* one iteration of the loop of AddFiles on the state st = [jobs, queue,
\* overflow, updates]
AddPath(st, path) ==
    IF Exists(st.jobs, path) THEN st
    ELSE LET j == Len(st.jobs) + 1
             room == Len(st.queue) < QueueCap
         IN  [ jobs |-> Append(st.jobs, NewJob(path)),
               queue |-> IF room THEN Append(st.queue, j) ELSE st.queue,
               overflow |-> IF room THEN st.overflow ELSE st.overflow \cup {j},
               updates |-> Broadcast(st.updates, j) ]

RECURSIVE AddAll(_, _)
AddAll(st, paths) ==
    IF paths = << >> THEN st ELSE AddAll(AddPath(st, Head(paths)), Tail(paths))

\* the argument lists of AddFiles: one path, or two (a repeated path included)
PathLists == {<< a >> : a \in Sources} \cup {<< a, b >> : a \in Sources, b \in Sources}

\* AddFiles(paths), under jobMutex. Worker steps between two iterations of
\* its loop are the runs with two calls of one path each.
AddFiles(paths) ==
    /\ ~panicked
    /\ \E st \in {AddAll([jobs |-> jobs, queue |-> queue, overflow |-> overflow,
                           updates |-> updates], paths)} :
          /\ Len(st.jobs) <= MaxJobs
          /\ jobs' = st.jobs
          /\ queue' = st.queue
          /\ overflow' = st.overflow
          /\ IF updatesClosed /\ Len(st.jobs) > Len(jobs)
             THEN panicked' = TRUE /\ updates' = updates
             ELSE panicked' = FALSE /\ updates' = st.updates
    /\ UNCHANGED << updatesClosed, isPaused, cancelled, started, stopPc,
                    wk, config, fs, tmp, cl, workerCount, cmd, call >>

\* the feeder goroutine of AddFiles: a blocking send of the job
Feeder(j) ==
    /\ ~panicked
    /\ j \in overflow
    /\ Len(queue) < QueueCap
    /\ queue' = Append(queue, j)
    /\ overflow' = overflow \ {j}
    /\ UNCHANGED << jobs, updates, updatesClosed, isPaused, cancelled, started,
                    stopPc, wk, config, fs, tmp, panicked, cl, workerCount, cmd, call >>

----------------------------------------------------------------------------
(* Start, Stop, Pause, Resume, TogglePause *)

Idle == [pc |-> "idle", job |-> 0, finalPath |-> EmptyPath, off |-> 0, stale |-> FALSE]

AtGate == [Idle EXCEPT !.pc = "gate"]

\* A clamp without the lower limit.
Clamp_upperOnly(c) == IF c > MaxWorkers THEN MaxWorkers ELSE c

\* Configure(concurrency): the value is clamped to 1..4
Clamp(c) == IF c > MaxWorkers THEN MaxWorkers ELSE IF c < MinWorkers THEN MinWorkers ELSE c

\* the values Configure is called with
Concurrencies == (0 - 1)..(MaxWorkers + 1)

\* Configure: p.workerCount is written, nothing else
Configure(c) ==
    /\ ~panicked
    /\ workerCount' = Clamp(c)
    /\ UNCHANGED << jobs, queue, overflow, updates, updatesClosed, isPaused,
                    cancelled, started, stopPc, wk, config, fs, tmp, panicked,
                    cl, cmd, call >>

\* A loop of Start that runs once more.
Launch_oneMore(ws, n) == [w \in Workers |-> IF w <= n + 1 THEN AtGate ELSE ws[w]]

\* the loop of Start: go p.worker(i) for i < workerCount
Launch(ws, n) == [w \in Workers |-> IF w <= n THEN AtGate ELSE ws[w]]

\* Start: one worker goroutine per slot of workerCount
Start ==
    /\ ~panicked
    /\ ~started
    /\ started' = TRUE
    /\ wk' = Launch(wk, workerCount)
    /\ UNCHANGED << jobs, queue, overflow, updates, updatesClosed, isPaused,
                    cancelled, stopPc, config, fs, tmp, panicked, cl, workerCount, cmd, call >>

\* Stop, first statement: p.cancel()
StopCancel ==
    /\ ~panicked
    /\ stopPc = "none"
    /\ cancelled' = TRUE
    /\ stopPc' = "wait"
    /\ UNCHANGED << jobs, queue, overflow, updates, updatesClosed, isPaused,
                    started, wk, config, fs, tmp, panicked, cl, workerCount, cmd, call >>

\* the workers wg counts: those started and not yet returned
Running == {w \in Workers : wk[w].pc \notin {"idle", "exited"}}

\* Stop, after wg.Wait() returned: close(p.updates)
StopClose ==
    /\ ~panicked
    /\ stopPc = "wait"
    /\ Running = {}
    /\ stopPc' = "done"
    /\ updatesClosed' = TRUE
    /\ UNCHANGED << jobs, queue, overflow, updates, isPaused, cancelled,
                    started, wk, config, fs, tmp, panicked, cl, workerCount, cmd, call >>

Pause ==
    /\ ~panicked
    /\ isPaused' = TRUE
    /\ UNCHANGED << jobs, queue, overflow, updates, updatesClosed, cancelled,
                    started, stopPc, wk, config, fs, tmp, panicked, cl, workerCount, cmd, call >>

\* A Resume without the Broadcast.
Wake_none(ws) == ws

\* pauseCond.Broadcast(): every worker in pauseCond.Wait() goes back to the
\* test of its loop
Wake(ws) == [w \in Workers |-> IF ws[w].pc = "wait" THEN [ws[w] EXCEPT !.pc = "gate"] ELSE ws[w]]

Resume ==
    /\ ~panicked
    /\ isPaused' = FALSE
    /\ wk' = Wake(wk)
    /\ UNCHANGED << jobs, queue, overflow, updates, updatesClosed, cancelled,
                    started, stopPc, config, fs, tmp, panicked, cl, workerCount, cmd, call >>

TogglePause ==
    /\ ~panicked
    /\ isPaused' = ~isPaused
    /\ wk' = IF isPaused THEN Wake(wk) ELSE wk
    /\ UNCHANGED << jobs, queue, overflow, updates, updatesClosed, cancelled,
                    started, stopPc, config, fs, tmp, panicked, cl, workerCount, cmd, call >>

\* the observer of Updates() takes one update
Receive ==
    /\ ~panicked
    /\ updates # << >>
    /\ updates' = Tail(updates)
    /\ UNCHANGED << jobs, queue, overflow, updatesClosed, isPaused, cancelled,
                    started, stopPc, wk, config, fs, tmp, panicked, cl, workerCount, cmd, call >>

----------------------------------------------------------------------------
(* worker and process *)

\* p.broadcast(job) from a worker
Publish(j) ==
    IF updatesClosed
    THEN panicked' = TRUE /\ updates' = updates
    ELSE panicked' = panicked /\ updates' = Broadcast(updates, j)

\* A status write that is dropped while the Pipeline is paused.
SetStatus_unlessPaused(js, j, st) ==
    IF isPaused THEN js ELSE [js EXCEPT ![j].Status = st]

\* job.Status = st
SetStatus(js, j, st) == [js EXCEPT ![j].Status = st]

\* A failure path that hands the job back as Pending.
SetFailed_pending(js, j, err) ==
    [js EXCEPT ![j].Error = err, ![j].Status = StatusPending]

\* job.Error = err; job.Status = StatusFailed
SetFailed(js, j, err) ==
    [js EXCEPT ![j].Error = err, ![j].Status = StatusFailed]

RemoveTmp(t, j) == [t EXCEPT ![j] = NoFile]

\* The cleanup with only the deferred function that tests success.
DeferredRemove_unlessSuccess(t, j, success) ==
    IF success THEN t ELSE RemoveTmp(t, j)

\* the deferred calls of process on tmpName, in the order they run: the
\* function that removes it unless success, then os.Remove(tmpName)
DeferredRemove(t, j, success) ==
    RemoveTmp(IF success THEN t ELSE RemoveTmp(t, j), j)

\* A failure branch that ends the worker's loop.
Fail_exit(w, err) ==
    LET j == wk[w].job
    IN  /\ jobs' = SetFailed(jobs, j, err)
        /\ Publish(j)
        /\ tmp' = DeferredRemove(tmp, j, FALSE)
        /\ wk' = [wk EXCEPT ![w] = [AtGate EXCEPT !.pc = "exited"]]

\* a failure branch of process: the error and the status are recorded, the
\* update is published, process returns and its deferred calls run
Fail(w, err) ==
    LET j == wk[w].job
    IN  /\ jobs' = SetFailed(jobs, j, err)
        /\ Publish(j)
        /\ tmp' = DeferredRemove(tmp, j, FALSE)
        /\ wk' = [wk EXCEPT ![w] = AtGate]

\* worker: the test of the pause gate under pauseMutex
GateCheck(w) ==
    /\ ~panicked
    /\ wk[w].pc = "gate"
    /\ wk' = [wk EXCEPT ![w].pc = IF isPaused THEN "wait" ELSE "select"]
    /\ UNCHANGED << jobs, queue, overflow, updates, updatesClosed, isPaused,
                    cancelled, started, stopPc, config, fs, tmp, panicked, cl, workerCount, cmd, call >>

\* worker: select takes <-p.ctx.Done()
SelectDone(w) ==
    /\ ~panicked
    /\ wk[w].pc = "select"
    /\ cancelled
    /\ wk' = [wk EXCEPT ![w].pc = "exited"]
    /\ UNCHANGED << jobs, queue, overflow, updates, updatesClosed, isPaused,
                    cancelled, started, stopPc, config, fs, tmp, panicked, cl, workerCount, cmd, call >>

\* a Job still Pending is marked Cancelled, through the pointer that Jobs()
\* and the update stream hand out; the worker's test of StatusCancelled is
\* for such a job
CancelJob(j) ==
    /\ ~panicked
    /\ j \in JobIds(jobs)
    /\ jobs[j].Status = StatusPending
    /\ jobs' = SetStatus(jobs, j, StatusCancelled)
    /\ UNCHANGED << queue, overflow, updates, updatesClosed, isPaused, cancelled,
                    started, stopPc, wk, config, fs, tmp, panicked, cl,
                    workerCount, cmd, call >>

\* A receive that leaves the job in the queue.
Dequeue_peek(q) == q

\* case job := <-p.queue: the queue without the job received
Dequeue(q) == Tail(q)

\* worker: select takes a job from p.queue; unless the job is Cancelled,
\* process starts: job.Status = StatusProcessing, broadcast
SelectJob(w) ==
    /\ ~panicked
    /\ wk[w].pc = "select"
    /\ queue # << >>
    /\ LET j == Head(queue)
       IN  /\ queue' = Dequeue(queue)
           /\ IF jobs[j].Status = StatusCancelled
              THEN /\ wk' = [wk EXCEPT ![w] = AtGate]
                   /\ UNCHANGED << jobs, updates, panicked >>
              ELSE /\ jobs' = SetStatus(jobs, j, StatusProcessing)
                   /\ Publish(j)
                   /\ wk' = [wk EXCEPT ![w] = [AtGate EXCEPT !.pc = "fetch", !.job = j]]
    /\ UNCHANGED << overflow, updatesClosed, isPaused, cancelled, started,
                    stopPc, config, fs, tmp, cl, workerCount, cmd, call >>

\* process, up to the temp file holding the result: os.Open(job.FilePath),
\* os.CreateTemp, p.client.Compress, io.Copy(tmpFile, r), tmpFile.Close().
\* These touch only the worker's own temp file; any of them may fail, and
\* then the job is Failed and the temp file, if created, is removed.
Fetch(w) ==
    /\ ~panicked
    /\ wk[w].pc = "fetch"
    /\ \E ok \in BOOLEAN :
          IF ok /\ fs[jobs[wk[w].job].FilePath].exists
          THEN /\ tmp' = [tmp EXCEPT ![wk[w].job] = File(Result(wk[w].job))]
               /\ wk' = [wk EXCEPT ![w].pc = "place"]
               /\ UNCHANGED << jobs, updates, panicked >>
          ELSE Fail(w, JobError)
    /\ UNCHANGED << queue, overflow, updatesClosed, isPaused, cancelled,
                    started, stopPc, config, fs, cl, workerCount, cmd, call >>

\* the other workers writing, in copyFile, to the file a rename replaces keep
\* writing to the replaced file, which has no name any more
Replaced(ws, w, path) ==
    [u \in Workers |->
        IF u # w /\ ws[u].pc = "copyWrite" /\ ws[u].finalPath = path
        THEN [ws[u] EXCEPT !.stale = TRUE] ELSE ws[u]]

\* process: finalPath is computed from p.config, then
\* os.MkdirAll(filepath.Dir(finalPath)) and os.Rename(tmpName, finalPath);
\* when the rename fails copyFile is next
Place(w) ==
    /\ ~panicked
    /\ wk[w].pc = "place"
    /\ \E final \in {FinalPath(config, jobs[wk[w].job].FilePath)},
          res \in {"mkdirFails", "renamed", "renameFails"} :
         LET j == wk[w].job IN
             CASE res = "mkdirFails" ->
                    /\ Fail(w, JobError)
                    /\ UNCHANGED fs
               [] res = "renamed" /\ final \in FsPaths ->
                    /\ fs' = [fs EXCEPT ![final] = tmp[j]]
                    /\ tmp' = RemoveTmp(tmp, j)
                    /\ wk' = [Replaced(wk, w, final) EXCEPT
                                 ![w].pc = "finish", ![w].finalPath = final]
                    /\ UNCHANGED << jobs, updates, panicked >>
               [] OTHER ->
                    /\ wk' = [wk EXCEPT ![w].pc = "copyFile", ![w].finalPath = final]
                    /\ UNCHANGED << jobs, updates, fs, tmp, panicked >>
    /\ UNCHANGED << queue, overflow, updatesClosed, isPaused, cancelled,
                    started, stopPc, config, cl, workerCount, cmd, call >>

\* copyFile: os.Open(src), os.Create(dst); dst is created or truncated
CopyFileCreate(w) ==
    /\ ~panicked
    /\ wk[w].pc = "copyFile"
    /\ LET final == wk[w].finalPath
       IN  \E ok \in BOOLEAN :
             IF ok /\ final \in FsPaths
             THEN /\ fs' = [fs EXCEPT ![final] = File(<< >>)]
                  /\ wk' = [wk EXCEPT ![w].pc = "copyWrite", ![w].off = 0,
                                       ![w].stale = FALSE]
                  /\ UNCHANGED << jobs, updates, tmp, panicked >>
             ELSE /\ Fail(w, JobError)
                  /\ UNCHANGED fs
    /\ UNCHANGED << queue, overflow, updatesClosed, isPaused, cancelled,
                    started, stopPc, config, cl, workerCount, cmd, call >>

\* copyFile: io.Copy(out, in) writes the next chunk; after the last one
\* copyFile returns nil
CopyFileWrite(w) ==
    /\ ~panicked
    /\ wk[w].pc = "copyWrite"
    /\ LET j == wk[w].job
           final == wk[w].finalPath
           pos == wk[w].off + 1
       IN  \E ok \in BOOLEAN :
             IF ok
             THEN /\ fs' = IF wk[w].stale THEN fs
                           ELSE [fs EXCEPT ![final] =
                                    File(WriteAt(fs[final].data, pos, tmp[j].data[pos]))]
                  /\ wk' = [wk EXCEPT ![w].off = pos,
                                       ![w].pc = IF pos = Chunks THEN "finish"
                                                 ELSE "copyWrite"]
                  /\ UNCHANGED << jobs, updates, tmp, panicked >>
             ELSE /\ Fail(w, JobError)
                  /\ UNCHANGED fs
    /\ UNCHANGED << queue, overflow, updatesClosed, isPaused, cancelled,
                    started, stopPc, config, cl, workerCount, cmd, call >>

\* process: success = true, the stats, job.Status = StatusDone, broadcast;
\* process returns and its deferred calls run
Finish(w) ==
    /\ ~panicked
    /\ wk[w].pc = "finish"
    /\ LET j == wk[w].job
       IN  /\ jobs' = SetStatus(jobs, j, StatusDone)
           /\ Publish(j)
           /\ tmp' = DeferredRemove(tmp, j, TRUE)
           /\ wk' = [wk EXCEPT ![w] = AtGate]
    /\ UNCHANGED << queue, overflow, updatesClosed, isPaused, cancelled,
                    started, stopPc, config, fs, cl, workerCount, cmd, call >>

----------------------------------------------------------------------------
(* The compress command: New, Configure(2), Start, AddFiles, and the loop   *)
(* over Updates() that counts the finished jobs. Of process only the        *)
(* statuses, the statistics and the published updates are kept here: the   *)
(* files are the subject of the actions above.                              *)

\* p.Configure(2)
CmdWorkers == 2

Abs(x) == IF x < 0 THEN 0 - x ELSE x

RECURSIVE GCD(_, _)
GCD(a, b) == IF b = 0 THEN a ELSE GCD(b, a % b)

\* the values of the float64 field SavedPercent, as exact fractions n/d in
\* lowest terms with d > 0 (float64 rounding is not modelled)
Rat(n, d) == LET g == GCD(Abs(n), d) IN << n \div g, d \div g >>

RatZero == << 0, 1 >>

\* float64(a) / float64(b), for b > 0
Quot(a, b) == Rat(a, b)

\* r * k
Times(r, k) == Rat(r[1] * k, r[2])

\* a file of the command line: its size on disk and the output size the
\* service reports for it
FileOf(size, out) == [size |-> size, out |-> out]

\* three files of 100, 200 and 300 bytes that the service shrinks to 50,
\* 100 and 150 bytes
Scenario == << FileOf(100, 50), FileOf(200, 100), FileOf(300, 150) >>

\* the runs of the command: the scenario, an empty file before a file that
\* shrinks to a third, and a file that grows
FileLists ==
    { Scenario,
      << FileOf(0, 50), FileOf(300, 100) >>,
      << FileOf(100, 150) >> }

\* A Job created without the size of its file.
CmdJob_sizeless(size) ==
    [ OriginalSize |-> 0, CompressedSize |-> 0, SavedBytes |-> 0,
      SavedPercent |-> RatZero, Status |-> StatusPending, Error |-> NoError ]

\* the Job AddFiles creates: OriginalSize from os.Stat, the rest zero
CmdJob(size) ==
    [ OriginalSize |-> size, CompressedSize |-> 0, SavedBytes |-> 0,
      SavedPercent |-> RatZero, Status |-> StatusPending, Error |-> NoError ]

\* pc: idle, add (in AddFiles), drain (in the loop over Updates()), summary.
\* todo: the paths AddFiles has not reached yet. out: per job, the output
\* size the service reports. pos: per job, where its worker is: queue,
\* process, stats (statistics written, status not yet) or end. history:
\* the records handed to the history Manager (hMgr, taken as non-nil).
\* sent: per buffered update, the status its job had when it was published;
\* the channel carries the pointer only, and no step reads sent. last: of
\* the update received last, the status at publishing and the status the
\* loop read.
NoUpdate == [sent |-> "none", read |-> "none"]

CmdIdle ==
    [ pc |-> "idle", todo |-> << >>, out |-> << >>, jobs |-> << >>,
      pos |-> << >>, updates |-> << >>, target |-> 0, done |-> 0,
      processedCount |-> 0, errorCount |-> 0,
      totalBefore |-> 0, totalAfter |-> 0, totalSaved |-> 0,
      history |-> << >>, sent |-> << >>, last |-> NoUpdate ]

\* the history.Record the loop builds for job j: Status "success", no Error
Record(j) == [File |-> j, Status |-> "success", Error |-> NoError]

\* p.broadcast(job) on the command's Pipeline
CmdBroadcast(upd, j) == IF Len(upd) < CmdUpdCap THEN Append(upd, j) ELSE upd

\* the status at publishing time, kept for the updates that enter the buffer
CmdNote(sent, upd, st) == IF Len(upd) < CmdUpdCap THEN Append(sent, st) ELSE sent

\* A receive that hands the loop the Job as it was when it was published.
Received_asPublished(c) ==
    [c.jobs[Head(c.updates)] EXCEPT !.Status = Head(c.sent)]

\* job := <-p.Updates(): the loop gets the pointer, and its reads of
\* job.Status, job.Error and the sizes see the fields as they are now
Received(c) == c.jobs[Head(c.updates)]

\* Statistics with the percentage taken of the output size.
Stats_percentOfOutput(job, compressedSize) ==
    [ job EXCEPT
        !.CompressedSize = compressedSize,
        !.SavedBytes = job.OriginalSize - compressedSize,
        !.SavedPercent = IF job.OriginalSize > 0
                         THEN Times(Quot(compressedSize, job.OriginalSize), 100)
                         ELSE @ ]

\* "Update stats" of process: CompressedSize, SavedBytes and, when
\* OriginalSize > 0, SavedPercent
Stats(job, compressedSize) ==
    [ job EXCEPT
        !.CompressedSize = compressedSize,
        !.SavedBytes = job.OriginalSize - compressedSize,
        !.SavedPercent = IF job.OriginalSize > 0
                         THEN Times(Quot(job.OriginalSize - compressedSize,
                                         job.OriginalSize), 100)
                         ELSE @ ]

\* the command starts: pipeline.New, Configure(2), Start, and AddFiles is
\* called with the images found; target is their number
CmdRun(files) ==
    /\ cmd.pc = "idle"
    /\ cmd' = [cmd EXCEPT !.pc = "add", !.todo = files, !.target = Len(files)]
    /\ UNCHANGED << pipeVars, cl, call >>

\* one iteration of the loop of AddFiles, the workers running already
CmdAddPath ==
    /\ cmd.pc = "add"
    /\ LET f == Head(cmd.todo)
           j == Len(cmd.jobs) + 1
       IN  cmd' = [cmd EXCEPT
                      !.todo = Tail(@),
                      !.jobs = Append(@, CmdJob(f.size)),
                      !.out = Append(@, f.out),
                      !.pos = Append(@, "queue"),
                      !.updates = CmdBroadcast(@, j),
                      !.sent = CmdNote(@, cmd.updates, StatusPending),
                      !.pc = IF Tail(cmd.todo) = << >> THEN "drain" ELSE "add"]
    /\ UNCHANGED << pipeVars, cl, call >>

\* the jobs a worker is in process with
CmdBusy == {k \in 1..Len(cmd.jobs) : cmd.pos[k] \in {"process", "stats"}}

\* a free worker receives the first job of the queue: process sets
\* StatusProcessing and publishes
CmdTake(j) ==
    /\ j \in 1..Len(cmd.jobs)
    /\ cmd.pos[j] = "queue"
    /\ \A k \in 1..(j - 1) : cmd.pos[k] # "queue"
    /\ Cardinality(CmdBusy) < CmdWorkers
    /\ cmd' = [cmd EXCEPT !.jobs[j].Status = StatusProcessing,
                          !.pos[j] = "process",
                          !.updates = CmdBroadcast(@, j),
                          !.sent = CmdNote(@, cmd.updates, StatusProcessing)]
    /\ UNCHANGED << pipeVars, cl, call >>

\* a failure branch of process
CmdFail(j) ==
    /\ j \in 1..Len(cmd.jobs)
    /\ cmd.pos[j] = "process"
    /\ cmd' = [cmd EXCEPT !.jobs[j].Error = JobError,
                          !.jobs[j].Status = StatusFailed,
                          !.pos[j] = "end",
                          !.updates = CmdBroadcast(@, j),
                          !.sent = CmdNote(@, cmd.updates, StatusFailed)]
    /\ UNCHANGED << pipeVars, cl, call >>

\* process after the result is in place: the statistics are written
CmdStats(j) ==
    /\ j \in 1..Len(cmd.jobs)
    /\ cmd.pos[j] = "process"
    /\ cmd' = [cmd EXCEPT !.jobs[j] = Stats(@, cmd.out[j]),
                          !.pos[j] = "stats"]
    /\ UNCHANGED << pipeVars, cl, call >>

\* process, last statements: job.Status = StatusDone; p.broadcast(job)
CmdDone(j) ==
    /\ j \in 1..Len(cmd.jobs)
    /\ cmd.pos[j] = "stats"
    /\ cmd' = [cmd EXCEPT !.jobs[j].Status = StatusDone,
                          !.pos[j] = "end",
                          !.updates = CmdBroadcast(@, j),
                          !.sent = CmdNote(@, cmd.updates, StatusDone)]
    /\ UNCHANGED << pipeVars, cl, call >>

\* one iteration of "for job := range p.Updates()": the pointer received
\* is read now; a job that is Done or Failed is counted, one without an
\* error is added to the totals and to the history, and the loop ends when
\* done >= target
CmdDrain ==
    /\ cmd.pc = "drain"
    /\ cmd.updates # << >>
    /\ LET job == Received(cmd)
       IN  IF job.Status \in {StatusDone, StatusFailed}
           THEN cmd' = [cmd EXCEPT
                   !.updates = Tail(@),
                   !.sent = Tail(@),
                   !.last = [sent |-> Head(cmd.sent), read |-> job.Status],
                   !.done = @ + 1,
                   !.errorCount = IF job.Error # NoError THEN @ + 1 ELSE @,
                   !.processedCount = IF job.Error # NoError THEN @ ELSE @ + 1,
                   !.totalBefore = IF job.Error # NoError THEN @
                                   ELSE @ + job.OriginalSize,
                   !.totalAfter = IF job.Error # NoError THEN @
                                  ELSE @ + job.CompressedSize,
                   !.totalSaved = IF job.Error # NoError THEN @
                                  ELSE @ + job.SavedBytes,
                   !.history = IF job.Error # NoError THEN @
                               ELSE Append(@, Record(Head(cmd.updates))),
                   !.pc = IF cmd.done + 1 >= cmd.target
                          THEN "summary" ELSE "drain"]
           ELSE cmd' = [cmd EXCEPT
                   !.updates = Tail(@),
                   !.sent = Tail(@),
                   !.last = [sent |-> Head(cmd.sent), read |-> job.Status]]
    /\ UNCHANGED << pipeVars, cl, call >>

----------------------------------------------------------------------------
(* scanner.Scan, over the tree /d { a.png, b.txt, s { c.JPG } } in which    *)
(* some directories may be unreadable                                       *)

ScD == << Sep, "d" >>
ScA == ScD \o << Sep, "a", Dot, "png" >>
ScB == ScD \o << Sep, "b", Dot, "txt" >>
ScS == ScD \o << Sep, "s" >>
ScC == ScS \o << Sep, "c", Dot, "JPG" >>

ScDirs == {ScD, ScS}
ScFiles == {ScA, ScB, ScC}

\* os.ReadDir: the entries of a directory, sorted by name
Entries(dir) == IF dir = ScD THEN << ScA, ScB, ScS >> ELSE << ScC >>

\* the arguments: a malformed pattern, a pattern, a path that does not
\* exist, the directories, a file, and the same file written with "/./"
ScBad == << "[" >>
ScStar == ScD \o << Sep, "*" >>
ScMissing == << Sep, "m", Dot, "png" >>
ScDotA == ScD \o << Sep, Dot, Sep, "a", Dot, "png" >>

ScanArgs == {ScBad, ScStar, ScMissing, ScD, ScS, ScA, ScDotA}

ArgLists == UNION {[1..n -> ScanArgs] : n \in 1..MaxArgs}

\* the sets of directories without read permission
Denials == SUBSET ScDirs

\* os.Stat(p) succeeds
Stat(p) == Clean(p) \in ScDirs \cup ScFiles

\* filepath.Glob: ErrBadPattern for a malformed pattern; the entries of the
\* directory for dir/*, none when the directory cannot be read (Glob
\* ignores I/O errors); the path itself, if it exists, without a wildcard
Glob(p, denied) ==
    IF "[" \in Range(p) THEN [err |-> TRUE, matches |-> << >>]
    ELSE IF p[Len(p)] = "*"
         THEN [err |-> FALSE,
               matches |-> IF Dir(p) \in ScDirs \ denied
                           THEN Entries(Dir(p)) ELSE << >>]
         ELSE [err |-> FALSE, matches |-> IF Stat(p) THEN << p >> ELSE << >>]

\* strings.ToLower, on the names of the tree
ToLower(s) ==
    [i \in 1..Len(s) |-> IF s[i] = "JPG" THEN "jpg"
                          ELSE IF s[i] = "PNG" THEN "png" ELSE s[i]]

SupportedExtensions ==
    { << Dot, "png" >>, << Dot, "jpg" >>, << Dot, "jpeg" >>, << Dot, "webp" >> }

isSupported(filename) == ToLower(Ext(filename)) \in SupportedExtensions

\* filepath.Abs of a rooted path
FilepathAbs(p) == Clean(p)

\* filepath.WalkDir with the callback of Scan: the callback returns nil when
\* it is handed an error, so an unreadable directory is skipped and WalkDir
\* itself returns nil
RECURSIVE Walk(_, _)
Walk(dir, denied) ==
    IF dir \in denied THEN {}
    ELSE UNION { IF Entries(dir)[i] \in ScDirs
                 THEN Walk(Entries(dir)[i], denied)
                 ELSE IF isSupported(Entries(dir)[i])
                      THEN {FilepathAbs(Entries(dir)[i])} ELSE {}
                 : i \in 1..Len(Entries(dir)) }

\* the body of the loop over the matches, for one match: the images found
\* and the errors appended (each named by the path it is about)
ScanMatch(match, recursive, denied) ==
    IF ~Stat(match) THEN [images |-> {}, errors |-> << match >>]
    ELSE IF Clean(match) \in ScDirs
    THEN IF recursive
         THEN [images |-> Walk(Clean(match), denied), errors |-> << >>]
         ELSE IF Clean(match) \in denied
              THEN [images |-> {}, errors |-> << match >>]
              ELSE [images |-> { FilepathAbs(Join(match, Base(Entries(Clean(match))[i])))
                                 : i \in { k \in 1..Len(Entries(Clean(match))) :
                                           /\ Entries(Clean(match))[k] \notin ScDirs
                                           /\ isSupported(Base(Entries(Clean(match))[k])) } },
                    errors |-> << >>]
    ELSE [images |-> IF isSupported(match) THEN {FilepathAbs(match)} ELSE {},
          errors |-> << >>]

RECURSIVE ScanMatches(_, _, _, _)
ScanMatches(matches, recursive, denied, acc) ==
    IF matches = << >> THEN acc
    ELSE LET r == ScanMatch(Head(matches), recursive, denied)
         IN  ScanMatches(Tail(matches), recursive, denied,
                         [images |-> acc.images \cup r.images,
                          errors |-> acc.errors \o r.errors])

\* the loop of Scan over paths; when Glob has no match the path itself is
\* taken if os.Stat finds it, and dropped silently if not
RECURSIVE ScanPaths(_, _, _, _)
ScanPaths(paths, recursive, denied, acc) ==
    IF paths = << >> THEN acc
    ELSE LET p == Head(paths)
             g == Glob(p, denied)
         IN  IF g.err
             THEN ScanPaths(Tail(paths), recursive, denied,
                            [acc EXCEPT !.errors = Append(@, p)])
             ELSE ScanPaths(Tail(paths), recursive, denied,
                            ScanMatches(IF g.matches = << >> /\ Stat(p)
                                        THEN << p >> ELSE g.matches,
                                        recursive, denied, acc))

\* Scan: the images (a set: they come out of a map), the errors, and the
\* error returned, which is always nil
Scan(paths, recursive, denied) ==
    LET r == ScanPaths(paths, recursive, denied, [images |-> {}, errors |-> << >>])
    IN  [Images |-> r.images, Errors |-> r.errors, err |-> "nil"]

CallIdle == [fn |-> "none"]

\* one call of Scan
ScanCall(paths, recursive, denied) ==
    /\ call = CallIdle
    /\ call' = [fn |-> "Scan", paths |-> paths, recursive |-> recursive,
                denied |-> denied, res |-> Scan(paths, recursive, denied)]
    /\ UNCHANGED << pipeVars, cl, cmd >>

----------------------------------------------------------------------------
(* package config: Load and ShouldShowMascot *)

MascotOff == "off"
MascotOn == "on"
MascotAuto == "auto"

\* the values of Config.Mascot: the three modes, the zero value and a value
\* that is none of them
MascotModes == {MascotOff, MascotOn, MascotAuto, "", "always"}

\* the width from which the mascot is shown in mode auto
MascotWidth == 100

Widths == (MascotWidth - WidthSpan)..(MascotWidth + WidthSpan)

\* A test that needs more than 100 columns.
ShouldShowMascot_wider(mode, termWidth) ==
    CASE mode = MascotOff -> FALSE
      [] mode = MascotOn -> TRUE
      [] mode = MascotAuto -> termWidth > MascotWidth
      [] OTHER -> termWidth > MascotWidth

\* Config.ShouldShowMascot, c.Mascot being mode
ShouldShowMascot(mode, termWidth) ==
    CASE mode = MascotOff -> FALSE
      [] mode = MascotOn -> TRUE
      [] mode = MascotAuto -> termWidth >= MascotWidth
      [] OTHER -> termWidth >= MascotWidth

MascotCall(mode, termWidth) ==
    /\ call = CallIdle
    /\ call' = [fn |-> "ShouldShowMascot", mode |-> mode, termWidth |-> termWidth,
                res |-> ShouldShowMascot(mode, termWidth)]
    /\ UNCHANGED << pipeVars, cl, cmd >>

\* the fields of Config that the file holds
DefaultConfig ==
    [ APIKey |-> "", OutputMode |-> ModeReplace, OutputDir |-> "",
      Suffix |-> ".tiny", Metadata |-> FALSE, Mascot |-> MascotAuto ]

\* the values of TINYPNG_API_KEY: unset or empty, and two keys
EnvKeys == {"", "envkey", "filekey"}

\* the config file: missing, unreadable, not JSON, or a JSON object with
\* some of the fields (a function from field names to values)
ConfigFiles ==
    { [kind |-> "missing"], [kind |-> "unreadable"], [kind |-> "garbage"] }
    \cup { [kind |-> "json", fields |-> f] :
             f \in UNION { [names -> {"", "filekey", "directory"}] :
                              names \in SUBSET {"api_key", "output_mode"} } }

\* json.Unmarshal(data, cfg): the fields present in the object are set, the
\* others keep their values
Unmarshal(fields, cfg) ==
    [ cfg EXCEPT
        !.APIKey = IF "api_key" \in DOMAIN fields THEN fields["api_key"] ELSE @,
        !.OutputMode = IF "output_mode" \in DOMAIN fields
                       THEN fields["output_mode"] ELSE @ ]

\* An override that applies only when the Config has no key.
EnvOverride_whenEmpty(cfg, envKey) ==
    IF envKey # "" /\ cfg.APIKey = "" THEN [cfg EXCEPT !.APIKey = envKey] ELSE cfg

\* if envKey := os.Getenv(EnvAPIKey); envKey != "" { cfg.APIKey = envKey }
EnvOverride(cfg, envKey) ==
    IF envKey # "" THEN [cfg EXCEPT !.APIKey = envKey] ELSE cfg

\* Load: dirOK is whether os.UserConfigDir succeeds
Load(dirOK, file, envKey) ==
    IF ~dirOK THEN [err |-> "error"]
    ELSE IF file.kind = "missing"
    THEN [err |-> "nil", cfg |-> EnvOverride(DefaultConfig, envKey)]
    ELSE IF file.kind \in {"unreadable", "garbage"}
    THEN [err |-> "error"]
    ELSE [err |-> "nil",
          cfg |-> EnvOverride(Unmarshal(file.fields, DefaultConfig), envKey)]

LoadCall(dirOK, file, envKey) ==
    /\ call = CallIdle
    /\ call' = [fn |-> "Load", dirOK |-> dirOK, file |-> file, envKey |-> envKey,
                res |-> Load(dirOK, file, envKey)]
    /\ UNCHANGED << pipeVars, cl, cmd >>

----------------------------------------------------------------------------
(* The service client: one call of Compress *)

\* maxRetries and baseDelay (in seconds) of both retry loops
MaxRetries == 2
BaseDelay == 1

\* what c.Client.Do returns: 0 is a transport failure (no response), any
\* other value the status code of the response
NetErr == 0
Statuses == {200, 201, 400, 401, 404, 429, 499, 500, 503}
Outcomes == {NetErr} \cup Statuses

\* A backoff that does not grow.
Delay_constant(i) == BaseDelay

\* the backoff before attempt i: baseDelay * time.Duration(1<<i)
Delay(i) == BaseDelay * (2 ^ i)

\* A loop bound that lets one more attempt through.
MoreAttempts_oneMore(i) == i <= MaxRetries + 1

\* the test of both loops: i <= maxRetries
MoreAttempts(i) == i <= MaxRetries

\* The classification with 429 taken for a transient failure.
ClassifyUpload_retry429(o) ==
    IF o = NetErr THEN "retry"
    ELSE IF o = 401 THEN "apiError"
    ELSE IF o >= 500 \/ o = 429 THEN "retry"
    ELSE IF o >= 400 THEN "apiError"
    ELSE "success"

\* doShrinkWithRetry: what an upload attempt's outcome leads to
ClassifyUpload(o) ==
    IF o = NetErr THEN "retry"
    ELSE IF o = 401 \/ o = 429 THEN "apiError"
    ELSE IF o >= 500 THEN "retry"
    ELSE IF o >= 400 THEN "apiError"
    ELSE "success"

\* A download loop that retries every answer but 200.
ClassifyDownload_retryAll(o) ==
    IF o = 200 THEN "success" ELSE "retry"

\* downloadWithRetry: what a download attempt's outcome leads to
ClassifyDownload(o) ==
    IF o = NetErr THEN "retry"
    ELSE IF o # 200 THEN (IF o >= 500 THEN "retry" ELSE "failed")
    ELSE "success"

\* pc: idle, upWait, upReq, dlWait, dlReq, done. i: the loop variable.
\* hist, dhist: the outcomes of the upload and download requests issued.
\* waits, waited: the backoff sleeps completed and their total, in seconds.
\* upRet, upCode: what doShrinkWithRetry returned. ret: what Compress returned.
\* stream: Compress returned a non-nil io.ReadCloser.
ClientIdle ==
    [ pc |-> "idle", i |-> 0, hist |-> << >>, dhist |-> << >>, waits |-> 0,
      waited |-> 0, ctxDone |-> FALSE, upRet |-> "none", upCode |-> 0,
      ret |-> "none", stream |-> FALSE ]

\* Compress: io.Copy(&body, r), then doShrinkWithRetry starts with i = 0
CompressCall ==
    /\ cl.pc = "idle"
    /\ \E ok \in BOOLEAN :
          cl' = IF ok THEN [cl EXCEPT !.pc = "upReq", !.i = 0]
                ELSE [cl EXCEPT !.pc = "done", !.ret = "readErr"]
    /\ UNCHANGED << pipeVars, cmd, call >>

\* the context of the call is cancelled
CtxCancel ==
    /\ cl.pc # "done"
    /\ ~cl.ctxDone
    /\ cl' = [cl EXCEPT !.ctxDone = TRUE]
    /\ UNCHANGED << pipeVars, cmd, call >>

\* the loop of doShrinkWithRetry goes on with i + 1: the next backoff, or
\* "max retries exceeded for upload" when the loop ends
NextUpload(c) ==
    IF MoreAttempts(c.i + 1)
    THEN [c EXCEPT !.i = c.i + 1, !.pc = "upWait"]
    ELSE [c EXCEPT !.i = c.i + 1, !.pc = "done", !.upRet = "maxRetries",
                   !.ret = "maxRetriesUpload"]

\* doShrinkWithRetry, i > 0: the select on ctx.Done() and the timer. With
\* the context cancelled ctx.Done() is ready at once and the timer, of a
\* second or more, is not; a cancellation at the instant the timer fires is
\* the cancellation right after this step.
UploadBackoff ==
    /\ cl.pc = "upWait"
    /\ \/ /\ cl.ctxDone
          /\ cl' = [cl EXCEPT !.pc = "done", !.upRet = "ctxErr", !.ret = "ctxErr"]
       \/ /\ ~cl.ctxDone
          /\ cl' = [cl EXCEPT !.pc = "upReq", !.waits = cl.waits + 1,
                              !.waited = cl.waited + Delay(cl.i)]
    /\ UNCHANGED << pipeVars, cmd, call >>

\* doShrinkWithRetry: one POST and the handling of its outcome. A request
\* under a cancelled context fails as a transport failure.
UploadRequest ==
    /\ cl.pc = "upReq"
    /\ \E o \in Outcomes, jsonOk \in BOOLEAN :
          /\ cl.ctxDone => o = NetErr
          /\ LET c == [cl EXCEPT !.hist = Append(cl.hist, o)]
                 class == ClassifyUpload(o)
             IN  cl' = CASE class = "retry" -> NextUpload(c)
                         [] class = "apiError" ->
                              [c EXCEPT !.pc = "done", !.upRet = "apiError",
                                        !.upCode = o, !.ret = "apiError"]
                         [] OTHER ->
                              IF jsonOk
                              THEN [c EXCEPT !.pc = "dlReq", !.upRet = "ok", !.i = 0]
                              ELSE [c EXCEPT !.pc = "done", !.upRet = "decodeErr",
                                             !.ret = "decodeErr"]
    /\ UNCHANGED << pipeVars, cmd, call >>

\* the loop of downloadWithRetry goes on with i + 1
NextDownload(c) ==
    IF MoreAttempts(c.i + 1)
    THEN [c EXCEPT !.i = c.i + 1, !.pc = "dlWait"]
    ELSE [c EXCEPT !.i = c.i + 1, !.pc = "done", !.ret = "maxRetriesDownload"]

\* downloadWithRetry, i > 0: the select on ctx.Done() and the timer
DownloadBackoff ==
    /\ cl.pc = "dlWait"
    /\ \/ /\ cl.ctxDone
          /\ cl' = [cl EXCEPT !.pc = "done", !.ret = "ctxErr"]
       \/ /\ ~cl.ctxDone
          /\ cl' = [cl EXCEPT !.pc = "dlReq", !.waits = cl.waits + 1,
                              !.waited = cl.waited + Delay(cl.i)]
    /\ UNCHANGED << pipeVars, cmd, call >>

\* downloadWithRetry: one GET of the result URL and the handling of its
\* outcome; http.NewRequestWithContext fails on a URL that does not parse
DownloadRequest ==
    /\ cl.pc = "dlReq"
    /\ \/ cl' = [cl EXCEPT !.pc = "done", !.ret = "requestErr"]
       \/ \E o \in Outcomes :
             /\ cl.ctxDone => o = NetErr
             /\ LET c == [cl EXCEPT !.dhist = Append(cl.dhist, o)]
                    class == ClassifyDownload(o)
                IN  cl' = CASE class = "retry" -> NextDownload(c)
                            [] class = "failed" ->
                                 [c EXCEPT !.pc = "done", !.ret = "downloadFailed"]
                            [] OTHER -> [c EXCEPT !.pc = "done", !.ret = "ok",
                                                  !.stream = TRUE]
    /\ UNCHANGED << pipeVars, cmd, call >>

----------------------------------------------------------------------------
(* The Pipeline's specification *)


\* New: an empty Pipeline, not paused, not cancelled, over one output policy
PipeInit(cfg) ==
    /\ jobs = << >>
    /\ queue = << >>
    /\ overflow = {}
    /\ updates = << >>
    /\ updatesClosed = FALSE
    /\ isPaused = FALSE
    /\ cancelled = FALSE
    /\ started = FALSE
    /\ stopPc = "none"
    /\ wk = [w \in Workers |-> Idle]
    /\ config = cfg
    /\ fs = [p \in FsPaths |-> IF p \in Sources THEN File(Orig) ELSE NoFile]
    /\ tmp = [j \in 1..MaxJobs |-> NoFile]
    /\ panicked = FALSE
    /\ workerCount = WorkerCount
    /\ cmd = CmdIdle
    /\ call = CallIdle

Init ==
    /\ \E cfg \in Policies : PipeInit(cfg)
    /\ cl = ClientIdle

Next ==
    \/ \E paths \in PathLists : AddFiles(paths)
    \/ \E j \in 1..MaxJobs : Feeder(j)
    \/ Start
    \/ StopCancel
    \/ StopClose
    \/ Pause
    \/ Resume
    \/ TogglePause
    \/ Receive
    \/ \E w \in Workers : GateCheck(w)
    \/ \E w \in Workers : SelectDone(w)
    \/ \E w \in Workers : SelectJob(w)
    \/ \E w \in Workers : Fetch(w)
    \/ \E w \in Workers : Place(w)
    \/ \E w \in Workers : CopyFileCreate(w)
    \/ \E w \in Workers : CopyFileWrite(w)
    \/ \E w \in Workers : Finish(w)

Spec == Init /\ [][Next]_vars

----------------------------------------------------------------------------
(* The service client's specification *)

InitClient ==
    /\ PipeInit(Policy(ModeReplace, EmptyPath, SuffixT))
    /\ cl = ClientIdle

NextClient ==
    \/ CompressCall
    \/ CtxCancel
    \/ UploadBackoff
    \/ UploadRequest
    \/ DownloadBackoff
    \/ DownloadRequest

SpecClient == InitClient /\ [][NextClient]_vars

----------------------------------------------------------------------------
(* The Pipeline's life cycle: Start, Pause/Resume, Stop and the workers of   *)
(* a Pipeline as New builds it, under one output policy, with the           *)
(* scheduling of the goroutines                                             *)

InitLife ==
    /\ PipeInit(Policy(ModeReplace, EmptyPath, SuffixT))
    /\ cl = ClientIdle

\* the steps of worker w where os.Rename places the result: the copy
\* fallback, which touches nothing but the files, is left to Spec and
\* SpecWorkers
LifeStep(w) ==
    \/ GateCheck(w)
    \/ SelectDone(w)
    \/ SelectJob(w)
    \/ Fetch(w)
    \/ Place(w) /\ wk'[w].pc # "copyFile"
    \/ Finish(w)

NextLife ==
    \/ \E paths \in PathLists : AddFiles(paths)
    \/ \E j \in 1..MaxJobs : Feeder(j)
    \/ Start
    \/ StopCancel
    \/ StopClose
    \/ Pause
    \/ Resume
    \/ TogglePause
    \/ Receive
    \/ \E w \in Workers : LifeStep(w)

\* every goroutine that can take a step takes one: the workers Start
\* launches, the feeders and the caller of Stop once wg.Wait() can return
FairLife ==
    /\ \A w \in 1..WorkerCount : WF_vars(LifeStep(w))
    /\ \A j \in 1..MaxJobs : WF_vars(Feeder(j))
    /\ WF_vars(StopClose)

SpecLife == InitLife /\ [][NextLife]_vars /\ FairLife

----------------------------------------------------------------------------
(* Jobs marked Cancelled while they wait: AddFiles, Start, the workers and *)
(* the marking of a Pending job                                            *)

NextCancel ==
    \/ \E paths \in PathLists : AddFiles(paths)
    \/ \E j \in 1..MaxJobs : Feeder(j)
    \/ \E j \in 1..MaxJobs : CancelJob(j)
    \/ Start
    \/ Receive
    \/ \E w \in Workers : GateCheck(w)
    \/ \E w \in Workers : SelectJob(w)
    \/ \E w \in Workers : Fetch(w)
    \/ \E w \in Workers : Place(w) /\ wk'[w].pc # "copyFile"
    \/ \E w \in Workers : Finish(w)

SpecCancel == InitLife /\ [][NextCancel]_vars

----------------------------------------------------------------------------
(* The dispatch of jobs to a configured number of workers: Configure, Start, *)
(* AddFiles and the workers of a Pipeline that is neither paused nor stopped *)

\* Configure is called before Start here: Start is the only reader of
\* workerCount
NextWorkers ==
    \/ \E c \in Concurrencies : ~started /\ Configure(c)
    \/ \E paths \in PathLists : AddFiles(paths)
    \/ \E j \in 1..MaxJobs : Feeder(j)
    \/ Start
    \/ Receive
    \/ \E w \in Workers : GateCheck(w)
    \/ \E w \in Workers : SelectJob(w)
    \/ \E w \in Workers : Fetch(w)
    \/ \E w \in Workers : Place(w)
    \/ \E w \in Workers : CopyFileCreate(w)
    \/ \E w \in Workers : CopyFileWrite(w)
    \/ \E w \in Workers : Finish(w)

SpecWorkers == InitLife /\ [][NextWorkers]_vars

----------------------------------------------------------------------------
(* Configure at any moment of a Pipeline with queued jobs and with workers   *)
(* at the gate, on the queue, holding a job or exited                       *)

NextConfig ==
    \/ \E c \in Concurrencies : Configure(c)
    \/ \E paths \in PathLists : AddFiles(paths)
    \/ \E j \in 1..MaxJobs : Feeder(j)
    \/ Start
    \/ StopCancel
    \/ Pause
    \/ Resume
    \/ \E w \in Workers : GateCheck(w)
    \/ \E w \in Workers : SelectDone(w)
    \/ \E w \in Workers : SelectJob(w)

SpecConfig == InitLife /\ [][NextConfig]_vars

----------------------------------------------------------------------------
(* The settings screen changing the output mode of a running Pipeline: its  *)
(* Config is the one New was given                                          *)

\* settings, item "Output Mode": "replace" becomes "directory" and back
ToggleOutputMode ==
    /\ ~panicked
    /\ config' = [config EXCEPT !.OutputMode = IF @ = ModeReplace
                                               THEN ModeDirectory
                                               ELSE ModeReplace]
    /\ UNCHANGED << jobs, queue, overflow, updates, updatesClosed, isPaused,
                    cancelled, started, stopPc, wk, fs, tmp, panicked, cl,
                    workerCount, cmd, call >>

NextPolicy ==
    \/ ToggleOutputMode
    \/ \E paths \in PathLists : AddFiles(paths)
    \/ \E j \in 1..MaxJobs : Feeder(j)
    \/ Start
    \/ Receive
    \/ \E w \in Workers : GateCheck(w)
    \/ \E w \in Workers : SelectJob(w)
    \/ \E w \in Workers : Fetch(w)
    \/ \E w \in Workers : Place(w)
    \/ \E w \in Workers : CopyFileCreate(w)
    \/ \E w \in Workers : CopyFileWrite(w)
    \/ \E w \in Workers : Finish(w)

SpecPolicy == InitLife /\ [][NextPolicy]_vars

----------------------------------------------------------------------------
(* The specification of the calls of Scan *)

NextScan ==
    \E paths \in ArgLists, recursive \in BOOLEAN, denied \in Denials :
        ScanCall(paths, recursive, denied)

SpecScan == InitLife /\ [][NextScan]_vars

----------------------------------------------------------------------------
(* The specification of the calls of package config *)

NextSettings ==
    \/ \E mode \in MascotModes, w \in Widths : MascotCall(mode, w)
    \/ \E dirOK \in BOOLEAN, file \in ConfigFiles, envKey \in EnvKeys :
          LoadCall(dirOK, file, envKey)

SpecSettings == InitLife /\ [][NextSettings]_vars

----------------------------------------------------------------------------
(* The compress command's specification *)

NextCmd ==
    \/ \E files \in FileLists : CmdRun(files)
    \/ CmdAddPath
    \/ \E j \in 1..Len(cmd.jobs) : CmdTake(j)
    \/ \E j \in 1..Len(cmd.jobs) : CmdFail(j)
    \/ \E j \in 1..Len(cmd.jobs) : CmdStats(j)
    \/ \E j \in 1..Len(cmd.jobs) : CmdDone(j)
    \/ CmdDrain

SpecCmd == InitLife /\ [][NextCmd]_vars

----------------------------------------------------------------------------
(* Properties of the Pipeline *)

Active(st) == st = StatusPending \/ st = StatusProcessing
Terminal(st) == st = StatusDone \/ st = StatusFailed \/ st = StatusCancelled

StatusStep(a, b) ==
    \/ a = b
    \/ a = StatusPending /\ (b = StatusProcessing \/ b = StatusCancelled)
    \/ a = StatusProcessing /\ (b = StatusDone \/ b = StatusFailed)

\* C1: in every step of every interleaving of AddFiles, Start, Pause, Resume,
\* Stop and the workers, no job leaves the list, a new job is Pending, and
\* the status of a job either stays or moves Pending -> Processing,
\* Pending -> Cancelled, Processing -> Done or Processing -> Failed.
C1_StatusForward ==
    [][ /\ Len(jobs') >= Len(jobs)
        /\ \A j \in JobIds(jobs) : StatusStep(jobs[j].Status, jobs'[j].Status)
        /\ \A j \in (Len(jobs) + 1)..Len(jobs') : jobs'[j].Status = StatusPending
      ]_vars

\* a job is Done and another is Failed after Stop raised the cancellation
C1_Witness ==
    /\ cancelled
    /\ \E a, b \in JobIds(jobs) :
          jobs[a].Status = StatusDone /\ jobs[b].Status = StatusFailed

\* the destination the output policy gives job j
DestOf(j) == FinalPath(config, jobs[j].FilePath)

\* job j is the only job process has started on: the files are as Init left
\* them when process started on j
FirstProcessed(j) ==
    \A k \in JobIds(jobs) : k # j => jobs[k].Status = StatusPending

\* C2: a Failed job leaves its input file with the content it had and no
\* file at a destination path where none was (stated for the first job
\* processed, whose files were the initial ones).
C2_FailedLeavesFilesAlone ==
    \A j \in JobIds(jobs) :
        jobs[j].Status = StatusFailed /\ FirstProcessed(j) =>
            /\ fs[jobs[j].FilePath] = File(Orig)
            /\ DestOf(j) \in FsPaths \ Sources => ~fs[DestOf(j)].exists

\* C3: at every moment every file at a source or destination path holds
\* an original image or the complete result of some job.
C3_NeverPartial ==
    \A p \in FsPaths :
        fs[p].exists =>
            \/ fs[p].data = Orig
            \/ \E j \in JobIds(jobs) : fs[p].data = Result(j)

\* C4: when a job becomes Done, the file at its destination path is the
\* complete result Compress returned for it.
C4_DoneHoldsResult ==
    [][ \A w \in Workers :
          ( /\ wk[w].pc = "finish"
            /\ jobs[wk[w].job].Status # StatusDone
            /\ jobs'[wk[w].job].Status = StatusDone )
          => fs'[wk[w].finalPath] = File(Result(wk[w].job))
      ]_vars

\* C5: once process has returned for a job (the job is Done or Failed), the
\* temp file created for it does not exist; a temp file exists only while a
\* worker is between the creation of the temp file and the return of process.
C5_NoTempLeft ==
    \A j \in 1..MaxJobs :
        tmp[j].exists =>
            /\ j \in JobIds(jobs)
            /\ jobs[j].Status = StatusProcessing
            /\ \E w \in Workers :
                  wk[w].job = j /\ wk[w].pc \in {"place", "copyFile", "copyWrite", "finish"}

\* a job is Done, another is Failed, both after their temp file was filled
\* (the second job runs only after a first has returned)
C5_Witness ==
    /\ \E a, b \in JobIds(jobs) :
          jobs[a].Status = StatusDone /\ jobs[b].Status = StatusFailed
    /\ \E p \in FsPaths : fs[p].exists /\ Len(fs[p].data) < Chunks

\* C6: a Done job processed under a policy with a suffix or an output
\* directory has a destination path that differs from its source path.
C6_DestinationIsNotSource ==
    \A j \in JobIds(jobs) :
        ( /\ jobs[j].Status = StatusDone
          /\ (config.Suffix # EmptyPath \/ config.OutputDir # EmptyPath) )
        => DestOf(j) # jobs[j].FilePath

C7_OnePerPath ==
    \A a, b \in JobIds(jobs) :
        ( /\ a # b
          /\ jobs[a].FilePath = jobs[b].FilePath
          /\ Active(jobs[a].Status) )
        => ~Active(jobs[b].Status)

Enqueued == Range(queue) \cup overflow

C7_AddsOnlyFreePaths ==
    LET new == (Len(jobs) + 1)..Len(jobs')
    IN  /\ \A j \in new :
              /\ ~\E k \in JobIds(jobs) :
                     jobs[k].FilePath = jobs'[j].FilePath /\ Active(jobs[k].Status)
              /\ ~\E k \in new : k # j /\ jobs'[k].FilePath = jobs'[j].FilePath
        /\ (Range(queue') \cup overflow') \ Enqueued \subseteq new

\* C7: at most one job per path is Pending or Processing; a step adds a job
\* only for a path that has no Pending or Processing job and is not repeated
\* among the jobs added, and nothing but the added jobs is enqueued.
C7_NoDuplicateInFlight ==
    /\ []C7_OnePerPath
    /\ [][C7_AddsOnlyFreePaths]_vars

\* a path has a finished job and a second job in flight: AddFiles took the
\* path again only after its first job was terminal
C7_Witness ==
    \E a, b \in JobIds(jobs) :
        /\ a < b
        /\ jobs[a].FilePath = jobs[b].FilePath
        /\ Terminal(jobs[a].Status)
        /\ jobs[b].Status = StatusProcessing

----------------------------------------------------------------------------
(* Properties of the service client *)

Last(q) == q[Len(q)]

\* C8: when the shrink endpoint answered 500, 500 and then 200, exactly 3
\* uploads were issued, the successful one is the second retry, the
\* backoffs waited before it sum to at least 1s + 2s, doShrinkWithRetry
\* succeeds when the answer decodes, and Compress succeeds when the download
\* that follows it is answered 200.
C8_TwoRetriesThenSuccess ==
    cl.hist = << 500, 500, 200 >> =>
        /\ Len(cl.hist) = MaxRetries + 1
        /\ cl.upRet \in {"ok", "decodeErr"}
        /\ cl.waits >= 2
        /\ cl.waited >= BaseDelay + 2 * BaseDelay
        /\ (cl.upRet = "ok" /\ cl.dhist # << >> /\ Last(cl.dhist) = 200) => cl.ret = "ok"
        /\ cl.ret = "ok" => Last(cl.dhist) = 200

C8_Witness ==
    /\ cl.hist = << 500, 500, 200 >>
    /\ cl.dhist = << 200 >>
    /\ cl.ret = "ok"

\* C9: an upload answered 401, 429 or another 4xx status is the last upload:
\* doShrinkWithRetry has returned an API error with that status, no backoff
\* was waited after it and no download was issued.
C9_ClientErrorIsFinal ==
    \A k \in 1..Len(cl.hist) :
        (cl.hist[k] >= 400 /\ cl.hist[k] <= 499) =>
            /\ k = Len(cl.hist)
            /\ cl.pc = "done"
            /\ cl.upRet = "apiError"
            /\ cl.ret = "apiError"
            /\ cl.upCode = cl.hist[k]
            /\ cl.waits = k - 1
            /\ cl.dhist = << >>

\* a 429 on the first retry
C9_Witness ==
    /\ cl.hist = << 503, 429 >>
    /\ cl.pc = "done"

Transient(o) == o = NetErr \/ o >= 500

\* C10: at most 3 uploads are issued; while the loop runs its variable i is
\* the number of transient failures (status >= 500 or no response) so far;
\* after 3 transient failures doShrinkWithRetry has returned "max retries
\* exceeded", Compress has failed with it and no download was issued.
C10_ThreeAttempts ==
    /\ Len(cl.hist) <= MaxRetries + 1
    /\ cl.upRet \in {"none", "maxRetries"} =>
          cl.i = Cardinality({k \in 1..Len(cl.hist) : Transient(cl.hist[k])})
    /\ ( /\ Len(cl.hist) = MaxRetries + 1
         /\ \A k \in 1..Len(cl.hist) : Transient(cl.hist[k]) )
       => /\ cl.pc = "done"
          /\ cl.upRet = "maxRetries"
          /\ cl.ret = "maxRetriesUpload"
          /\ cl.dhist = << >>

\* a transport failure and two 5xx answers exhaust the attempts
C10_Witness ==
    /\ cl.hist = << NetErr, 500, 503 >>
    /\ cl.ret = "maxRetriesUpload"

\* C11: in both retry loops the wait before the first retry is 1s and the
\* wait before the second retry is 2s: the waits completed when retry i is
\* issued sum to 1s for i = 1 and to 1s + 2s for i = 2.
C11_BackoffStartsAtBase ==
    LET firstLoop == cl.pc = "upReq"
        secondLoop == cl.pc = "dlReq" /\ Len(cl.hist) = 1
    IN  (firstLoop \/ secondLoop) =>
            /\ cl.i = 1 => cl.waited = BaseDelay
            /\ cl.i = 2 => cl.waited = BaseDelay + 2 * BaseDelay

\* C12: a download is issued only after doShrinkWithRetry succeeded; at most
\* 3 downloads are issued; every download but the last was a transport
\* failure or a 5xx answer; a 200 answer or any other answer below 500 is
\* the last download, the first returning the stream and the second
\* "download failed"; Compress has returned a stream exactly when it has
\* returned no error.
C12_DownloadLoop ==
    /\ cl.dhist # << >> => cl.upRet = "ok"
    /\ Len(cl.dhist) <= MaxRetries + 1
    /\ \A k \in 1..Len(cl.dhist) :
          IF Transient(cl.dhist[k])
          THEN k = MaxRetries + 1 =>
                  cl.pc = "done" /\ cl.ret = "maxRetriesDownload"
          ELSE /\ k = Len(cl.dhist)
               /\ cl.pc = "done"
               /\ cl.ret = IF cl.dhist[k] = 200 THEN "ok" ELSE "downloadFailed"
    /\ cl.stream <=> (cl.pc = "done" /\ cl.ret = "ok")
    /\ cl.stream => cl.dhist # << >> /\ Last(cl.dhist) = 200

\* a download answered 503, retried and answered 404, and in another run a
\* stream returned: here the first
C12_Witness ==
    /\ cl.dhist = << 503, 404 >>
    /\ cl.ret = "downloadFailed"
    /\ ~cl.stream

\* C13: a Compress call that has issued a request and whose context was
\* cancelled before it returned returns the context's error (the failures
\* outside the retry loops, of reading the input and of building the
\* download request, left aside).
C13_CancelGivesCtxErr ==
    ( /\ cl.pc = "done"
      /\ cl.ctxDone
      /\ cl.ret \notin {"readErr", "requestErr"} )
    => cl.ret = "ctxErr"

----------------------------------------------------------------------------
(* Properties of the life cycle *)

\* C14: once Stop has cancelled the context, wg.Wait() returns and Stop
\* closes the update stream: every worker exits, wherever it is.
C14_StopReturns ==
    (stopPc = "wait") ~> (stopPc = "done" /\ Running = {})

\* C15: while the Pipeline stays paused, no job becomes Processing.
C15_NoDispatchWhilePaused ==
    [][ (isPaused /\ isPaused') =>
           \A j \in JobIds(jobs) :
               jobs[j].Status = StatusPending => jobs'[j].Status = StatusPending
      ]_vars

\* C16: a job that is Processing while the Pipeline is paused becomes Done
\* or Failed, whether or not Resume is ever called.
C16_ProcessingFinishesWhilePaused ==
    \A j \in 1..MaxJobs :
        ( /\ j \in JobIds(jobs)
          /\ jobs[j].Status = StatusProcessing
          /\ isPaused
          /\ ~panicked )
        ~> ( /\ j \in JobIds(jobs)
             /\ jobs[j].Status \in {StatusDone, StatusFailed} )

\* a worker is inside process, past the temp file, while the Pipeline is
\* paused and the other worker waits at the gate
C16_Witness ==
    /\ isPaused
    /\ \E w, u \in Workers :
          /\ wk[w].pc = "place"
          /\ jobs[wk[w].job].Status = StatusProcessing
          /\ wk[u].pc = "wait"

\* started, not paused and Stop not called
Open == started /\ ~isPaused /\ stopPc = "none"

C18_NoPublishAfterClose ==
    [][ /\ (updatesClosed' /\ ~updatesClosed) => Running = {}
        /\ updatesClosed =>
              \A j \in JobIds(jobs) : jobs'[j].Status = jobs[j].Status
      ]_vars

\* C19: after Stop has returned, no step sends on or closes the update
\* stream: the stream only loses what the observer takes, and no goroutine
\* panics.
C19_NothingAfterStop ==
    [][ stopPc = "done" =>
           /\ updates' = updates \/ (updates # << >> /\ updates' = Tail(updates))
           /\ ~panicked'
      ]_vars

\* the worker goroutines Start has launched
Launched == {w \in Workers : wk[w].pc # "idle"}

----------------------------------------------------------------------------
(* Properties of Configure and of the queues *)

\* C21: Configure(n) leaves workerCount at min(4, max(1, n)) for every n,
\* and a step that changes workerCount changes neither the workers nor the
\* job list nor the queue.
C21_ConfigureClamps ==
    /\ [](\A n \in Concurrencies :
             Clamp(n) = IF n < 1 THEN 1 ELSE IF n > 4 THEN 4 ELSE n)
    /\ [][ workerCount' # workerCount =>
              /\ \E n \in Concurrencies :
                    workerCount' = IF n < 1 THEN 1 ELSE IF n > 4 THEN 4 ELSE n
              /\ UNCHANGED << wk, started, jobs, queue, overflow >>
         ]_vars

\* Configure was called after Start: the workers launched are not
\* workerCount any more, one of them holds a job and a job is queued
C21_Witness ==
    /\ started
    /\ Cardinality(Launched) # workerCount
    /\ \E w \in Workers : wk[w].pc = "fetch"
    /\ queue # << >>

\* the number of times job j waits for a worker: its places in the queue
\* and its feeder goroutine
Waiting(j) ==
    Cardinality({i \in 1..Len(queue) : queue[i] = j})
        + (IF j \in overflow THEN 1 ELSE 0)

\* C22: AddFiles can run at every fill level of the queue, with or without
\* workers; a Pending job waits exactly once (in the queue or with its
\* feeder), a job a worker has taken waits nowhere, a feeder gives its job
\* to the queue only, and while the Pipeline runs unpaused every job of a
\* feeder reaches the queue.
C22_AddFilesNeverBlocks ==
    /\ [](\A paths \in PathLists :
             ( /\ ~panicked
               /\ Len(AddAll([jobs |-> jobs, queue |-> queue,
                              overflow |-> overflow, updates |-> updates],
                             paths).jobs) <= MaxJobs )
             => ENABLED AddFiles(paths))
    /\ [](\A j \in JobIds(jobs) :
             Waiting(j) = IF jobs[j].Status = StatusPending THEN 1 ELSE 0)
    /\ [][\A j \in overflow \ overflow' : j \in Range(queue')]_vars
    /\ \A j \in 1..MaxJobs :
          (Open /\ j \in overflow) ~> (~Open \/ j \notin overflow)

\* AddFiles has returned with the queue full and no worker started: the
\* job it could not enqueue is with a feeder
C22_Witness ==
    /\ ~started
    /\ Len(queue) = QueueCap
    /\ overflow # {}
    /\ \A j \in JobIds(jobs) : jobs[j].Status = StatusPending

\* C23: the update buffer never holds more than its capacity; a step that
\* changes a job while the open buffer is full leaves the buffer as it is
\* and does not panic; and no step of a worker that publishes waits for
\* room in the buffer.
C23_PublishNeverBlocks ==
    /\ [](Len(updates) <= UpdCap)
    /\ [][ (Len(updates) = UpdCap /\ ~updatesClosed /\ jobs' # jobs)
              => (updates' = updates /\ ~panicked') ]_vars
    /\ [](\A w \in Workers : ~panicked =>
             /\ (wk[w].pc = "select" /\ queue # << >>) => ENABLED SelectJob(w)
             /\ wk[w].pc = "fetch" => ENABLED Fetch(w)
             /\ wk[w].pc = "place" => ENABLED Place(w)
             /\ wk[w].pc = "finish" => ENABLED Finish(w))

\* the buffer still holds the updates of the first jobs and a later job was
\* added: its update found the buffer full and was dropped
C23_Witness ==
    /\ Len(jobs) > UpdCap
    /\ updates = [i \in 1..UpdCap |-> i]
    /\ \A j \in JobIds(jobs) : jobs[j].Status = StatusPending

----------------------------------------------------------------------------
(* Jobs() *)

Unfinished(job) == job.Status # StatusDone /\ job.Status # StatusFailed

\* A snapshot that leaves out the jobs that are Done or Failed.
Jobs_unfinished == SelectSeq(jobs, Unfinished)

\* Jobs(): a new slice of len(p.jobs) with p.jobs copied into it
Jobs == [i \in 1..Len(jobs) |-> jobs[i]]

----------------------------------------------------------------------------
(* Properties of the worker loop *)

\* the workers that hold job j
Holders(j) == {w \in Workers : wk[w].job = j}

\* C25: a job is held by at most one worker, and by exactly one while it is
\* Processing; a job that is not Pending waits nowhere (neither in the
\* queue nor with a feeder); Processing is entered from Pending only, by
\* the step that takes the job off the queue; no step puts a job that is
\* not waiting back on the queue.
C25_ProcessedOnce ==
    /\ [](\A j \in JobIds(jobs) :
             /\ Cardinality(Holders(j)) =
                    IF jobs[j].Status = StatusProcessing THEN 1 ELSE 0
             /\ jobs[j].Status # StatusPending => Waiting(j) = 0)
    /\ [][\A j \in JobIds(jobs) :
             /\ (jobs'[j].Status = StatusProcessing
                    /\ jobs[j].Status # StatusProcessing)
                  => (jobs[j].Status = StatusPending /\ queue # << >>
                        /\ Head(queue) = j /\ Waiting(j) = 1 /\ Holders(j) = {})
             /\ Waiting(j) = 0 => \A i \in 1..Len(queue') : queue'[i] # j
         ]_vars

\* the first job has failed and its worker holds the second job, with
\* another worker on the queue and nothing left to take
C25_Witness ==
    /\ Len(jobs) = MaxJobs
    /\ jobs[1].Status = StatusFailed
    /\ jobs[2].Status = StatusProcessing
    /\ \E w \in Workers : wk[w].pc = "select"
    /\ queue = << >>

\* C26: a step that makes a job Failed records an error on it, publishes
\* the job (the buffer unchanged when it is full), does not panic and
\* leaves the worker that held the job at the top of its loop; the set of
\* running workers grows only by Start and shrinks only after cancellation.
C26_FailureKeepsWorker ==
    /\ [][\A j \in JobIds(jobs) :
             (jobs'[j].Status = StatusFailed /\ jobs[j].Status # StatusFailed)
             => /\ jobs'[j].Error # NoError
                /\ ~updatesClosed
                /\ updates' = Broadcast(updates, j)
                /\ ~panicked'
                /\ \E w \in Workers : wk[w].job = j /\ wk'[w] = AtGate
         ]_vars
    /\ [][ Running' # Running =>
              \/ ~started /\ started' /\ Running \subseteq Running'
              \/ cancelled /\ Running' \subseteq Running
         ]_vars

\* every job has failed and every worker Start launched is at its select,
\* not cancelled
C26_Witness ==
    /\ Len(jobs) = MaxJobs
    /\ \A j \in JobIds(jobs) : jobs[j].Status = StatusFailed
    /\ ~cancelled
    /\ Running = 1..WorkerCount
    /\ \A w \in Running : wk[w].pc = "select"

----------------------------------------------------------------------------
(* Properties of the output policy *)

\* the destination the output policy is documented to give: the output
\* directory when one is configured, whatever the mode
DocumentedDest(cfg, filePath) ==
    IF cfg.OutputDir # EmptyPath
    THEN LET base == Base(filePath)
             ext == Ext(base)
         IN  Join(cfg.OutputDir,
                  IF cfg.Suffix # EmptyPath
                  THEN TrimSuffix(base, ext) \o cfg.Suffix \o ext
                  ELSE base)
    ELSE IF cfg.Suffix # EmptyPath
         THEN TrimSuffix(filePath, Ext(filePath)) \o cfg.Suffix \o Ext(filePath)
         ELSE filePath

\* C27: once the result of a job is in its temp file, the destination
\* process uses is outputDir/basename (with the suffix) when an output
\* directory is configured, also in mode "directory", else the original
\* path with the suffix, else the original path.
C27_DestinationRule ==
    \A w \in Workers :
        wk[w].pc \in {"finish", "copyFile", "copyWrite"}
        => wk[w].finalPath = DocumentedDest(config, jobs[wk[w].job].FilePath)

----------------------------------------------------------------------------
(* Properties of the statistics *)

\* job j of the command's Pipeline has no statistics yet
StatsZero(j) ==
    /\ cmd.jobs[j].CompressedSize = 0
    /\ cmd.jobs[j].SavedBytes = 0
    /\ cmd.jobs[j].SavedPercent = RatZero

\* job j has the statistics of the output size the service reported
StatsRight(j) ==
    LET job == cmd.jobs[j]
    IN  /\ job.CompressedSize = cmd.out[j]
        /\ job.SavedBytes = job.OriginalSize - job.CompressedSize
        /\ job.SavedPercent = IF job.OriginalSize > 0
                               THEN Rat(job.SavedBytes * 100, job.OriginalSize)
                               ELSE RatZero

\* C28 as stated: a Done job has SavedBytes = OriginalSize - CompressedSize
\* and SavedPercent = SavedBytes * 100 / OriginalSize (0 when OriginalSize
\* is 0), and every job that is not Done has the three fields at 0.
C28_StatsOnlyWhenDone ==
    \A j \in 1..Len(cmd.jobs) :
        IF cmd.jobs[j].Status = StatusDone THEN StatsRight(j) ELSE StatsZero(j)

\* C28, amended: a Done job has the statistics above; a Pending or Failed
\* job has the three fields at 0; a Processing job has them at 0 until the
\* last statements of process, which write them just before the status
\* becomes Done.
C28_StatsWhenDone ==
    \A j \in 1..Len(cmd.jobs) :
        /\ cmd.jobs[j].Status = StatusDone => StatsRight(j)
        /\ cmd.jobs[j].Status \in {StatusPending, StatusFailed} => StatsZero(j)
        /\ cmd.jobs[j].Status = StatusProcessing =>
              IF cmd.pos[j] = "stats" THEN StatsRight(j) ELSE StatsZero(j)

\* a Done job of an empty file (SavedPercent stays 0, SavedBytes is
\* negative), and a Done job saved by two thirds
C28_Witness ==
    /\ Len(cmd.jobs) = 2
    /\ \A j \in 1..2 : cmd.jobs[j].Status = StatusDone
    /\ cmd.jobs[1].OriginalSize = 0
    /\ cmd.jobs[1].SavedBytes < 0
    /\ cmd.jobs[2].SavedPercent = << 200, 3 >>

RECURSIVE TotalSaved(_)
TotalSaved(js) ==
    IF js = << >> THEN 0 ELSE Head(js).SavedBytes + TotalSaved(Tail(js))

RECURSIVE TotalBefore(_)
TotalBefore(js) ==
    IF js = << >> THEN 0 ELSE Head(js).OriginalSize + TotalBefore(Tail(js))

\* the scenario was submitted and its three jobs are Done
ScenarioDone ==
    /\ Len(cmd.jobs) = 3
    /\ cmd.todo = << >>
    /\ \A j \in 1..3 :
          /\ cmd.out[j] = Scenario[j].out
          /\ cmd.jobs[j].Status = StatusDone

\* C29 as stated: with files of 100, 200 and 300 bytes shrunk to 50, 100
\* and 150 bytes, once the three jobs are Done the total saved is 150 bytes
\* and each job's SavedPercent is 50.
C29_ScenarioSaves150 ==
    ScenarioDone =>
        /\ TotalSaved(cmd.jobs) = 150
        /\ \A j \in 1..3 : cmd.jobs[j].SavedPercent = << 50, 1 >>

\* C29, amended: in that scenario, once the three jobs are Done, the jobs
\* saved 50, 100 and 150 bytes, 300 bytes in total, which is 50% of the 600
\* bytes submitted, and each job's SavedPercent is 50.
C29_ScenarioSaves300 ==
    ScenarioDone =>
        /\ \A j \in 1..3 : cmd.jobs[j].OriginalSize = Scenario[j].size
        /\ \A j \in 1..3 : cmd.jobs[j].SavedBytes = Scenario[j].out
        /\ TotalSaved(cmd.jobs) = 300
        /\ TotalBefore(cmd.jobs) = 600
        /\ Times(Quot(TotalSaved(cmd.jobs), TotalBefore(cmd.jobs)), 100) = << 50, 1 >>
        /\ \A j \in 1..3 : cmd.jobs[j].SavedPercent = << 50, 1 >>

\* the scenario has run, the loop over the updates has ended and its
\* counters have each job once
C29_Witness ==
    /\ ScenarioDone
    /\ cmd.pc = "summary"
    /\ cmd.processedCount = 3
    /\ cmd.errorCount = 0
    /\ cmd.totalSaved = 300

----------------------------------------------------------------------------
(* Properties of a policy change *)

\* C30: a change of the output policy does not change the destination of a
\* job that is Processing and has not been placed yet: such a job goes to
\* the destination of the policy in force when it started.
C30_PolicyChangeSparesProcessing ==
    [][\A w \in Workers :
          (wk[w].pc \in {"fetch", "place"}
             /\ jobs[wk[w].job].Status = StatusProcessing)
          => FinalPath(config', jobs[wk[w].job].FilePath)
               = FinalPath(config, jobs[wk[w].job].FilePath)
      ]_vars

----------------------------------------------------------------------------
(* Properties of the compress command *)

\* the records the history Manager was handed for job j
RecordsOf(j) == {i \in 1..Len(cmd.history) : cmd.history[i].File = j}

CmdTerminal(j) == cmd.jobs[j].Status \in {StatusDone, StatusFailed}

\* C31: no job has two records in the history, and when the command
\* leaves its loop every job that is Done or Failed has exactly one, with
\* the job's status and error.
C31_OneRecordPerTerminalJob ==
    /\ \A j \in 1..Len(cmd.jobs) : Cardinality(RecordsOf(j)) <= 1
    /\ cmd.pc = "summary" =>
          \A j \in 1..Len(cmd.jobs) :
              CmdTerminal(j) =>
                 \E i \in 1..Len(cmd.history) :
                    /\ RecordsOf(j) = {i}
                    /\ (cmd.history[i].Status = "success")
                          = (cmd.jobs[j].Status = StatusDone)
                    /\ cmd.history[i].Error = cmd.jobs[j].Error

----------------------------------------------------------------------------
(* Properties of Scan *)

\* the directories the call names: by a path, or as a match of a pattern
\* on a readable directory
TopDirs ==
    {d \in ScDirs :
        \E i \in 1..Len(call.paths) :
            \/ Clean(call.paths[i]) = d
            \/ /\ call.paths[i][Len(call.paths[i])] = "*"
               /\ Dir(call.paths[i]) \in ScDirs \ call.denied
               /\ Dir(d) = Dir(call.paths[i])}

\* the directories the call has to read
VisitedDirs ==
    IF call.recursive
    THEN TopDirs \cup {d \in ScDirs : Dir(d) \in TopDirs \ call.denied}
    ELSE TopDirs

\* the supported files the call can reach
ReachableImages ==
    {f \in ScFiles :
        /\ \E e \in {"png", "jpg", "jpeg", "webp", "PNG", "JPG"} :
              Ext(f) = << Dot, e >>
        /\ \/ \E i \in 1..Len(call.paths) : Clean(call.paths[i]) = f
           \/ \E i \in 1..Len(call.paths) :
                 /\ call.paths[i][Len(call.paths[i])] = "*"
                 /\ Dir(call.paths[i]) = Dir(f)
                 /\ Dir(f) \notin call.denied
           \/ Dir(f) \in VisitedDirs \ call.denied}

\* the paths with a problem: a malformed pattern, a path that does not
\* exist, a pattern on an unreadable directory, an unreadable directory
Problems ==
    {call.paths[i] : i \in {k \in 1..Len(call.paths) :
        \/ "[" \in Range(call.paths[k])
        \/ call.paths[k][Len(call.paths[k])] # "*" /\ ~Stat(call.paths[k])
        \/ /\ call.paths[k][Len(call.paths[k])] = "*"
           /\ Dir(call.paths[k]) \in call.denied}}
    \cup (VisitedDirs \cap call.denied)

\* C32: Scan returns a nil error, Images are the reachable supported files,
\* each once and cleaned, and every path with a problem is named by one of
\* the Errors.
C32_ScanReportsEveryProblem ==
    call.fn = "Scan" =>
        /\ call.res.err = "nil"
        /\ call.res.Images = ReachableImages
        /\ Problems \subseteq Range(call.res.Errors)

----------------------------------------------------------------------------
(* Properties of package config *)

\* C33: ShouldShowMascot is false for every width in mode off, true for
\* every width in mode on, and termWidth >= 100 in mode auto and for every
\* other value of the mode.
C33_MascotByModeAndWidth ==
    call.fn = "ShouldShowMascot" =>
        call.res = IF call.mode = "off" THEN FALSE
                   ELSE IF call.mode = "on" THEN TRUE
                   ELSE call.termWidth >= 100

\* an unrecognized mode at exactly 100 columns: the mascot is shown
C33_Witness ==
    /\ call.fn = "ShouldShowMascot"
    /\ call.mode = "always"
    /\ call.termWidth = 100
    /\ call.res = TRUE

\* C34: a successful Load gives APIKey = TINYPNG_API_KEY when the variable
\* is not empty, whether the file is missing or has another key; with the
\* variable empty the key is the file's api_key, or empty when the file is
\* missing or has no api_key.
C34_EnvKeyOverridesFile ==
    (call.fn = "Load" /\ call.res.err = "nil") =>
        call.res.cfg.APIKey =
            IF call.envKey # "" THEN call.envKey
            ELSE IF call.file.kind = "json" /\ "api_key" \in DOMAIN call.file.fields
                 THEN call.file.fields["api_key"]
                 ELSE ""

\* the file has a key and the variable another one: Load returns the
\* variable's
C34_Witness ==
    /\ call.fn = "Load"
    /\ call.res.err = "nil"
    /\ call.file.kind = "json"
    /\ "api_key" \in DOMAIN call.file.fields
    /\ call.file.fields["api_key"] = "filekey"
    /\ call.envKey = "envkey"
    /\ call.res.cfg.APIKey = "envkey"

----------------------------------------------------------------------------
(* AddFiles and the terminal statuses *)

\* the state AddFiles works on
PipeState ==
    [jobs |-> jobs, queue |-> queue, overflow |-> overflow, updates |-> updates]

\* AddFiles on the one path adds a Pending job of that path
Adds(path) ==
    LET st == AddPath(PipeState, path)
    IN  /\ Len(st.jobs) = Len(jobs) + 1
        /\ st.jobs[Len(st.jobs)].FilePath = path
        /\ st.jobs[Len(st.jobs)].Status = StatusPending

\* C35: AddFiles creates a Pending job of a path whenever every existing job
\* of the path is Done, Failed or Cancelled, and skips the path only when
\* an existing job of it is Pending or Processing.
C35_AddFilesReaddsTerminal ==
    \A path \in Sources :
        /\ (\A j \in JobIds(jobs) :
               jobs[j].FilePath = path => Terminal(jobs[j].Status)) => Adds(path)
        /\ ~Adds(path) =>
               \E j \in JobIds(jobs) :
                   jobs[j].FilePath = path /\ Active(jobs[j].Status)

----------------------------------------------------------------------------
(* The compress command's reads of the jobs it receives *)

\* the loop over Updates() receives in this step
DrainStep == Len(cmd'.updates) < Len(cmd.updates)

\* C36: a worker writes a Job's fields through the same pointer the update
\* stream hands out, with no lock shared with the reader, so the status the
\* loop over Updates() reads from a received update is the Job's status at
\* the time of the read, whatever it was when the update was published, and
\* the loop counts the job as finished exactly when it is Done or Failed
\* then.
C36_ReadsCurrentStatus ==
    [][ DrainStep =>
          /\ cmd'.last.read = cmd.jobs[Head(cmd.updates)].Status
          /\ (cmd'.done = cmd.done + 1)
               <=> cmd.jobs[Head(cmd.updates)].Status \in {StatusDone, StatusFailed}
      ]_vars

\* the loop has read Done from an update published when the job was
\* Pending, and the next pointer it will receive is of a job that a worker
\* is writing: its statistics are written, its status not yet
C36_Witness ==
    /\ cmd.pc = "drain"
    /\ cmd.last = [sent |-> StatusPending, read |-> StatusDone]
    /\ cmd.updates # << >>
    /\ cmd.pos[Head(cmd.updates)] = "stats"

\* the sum of a field over the jobs that are Done
RECURSIVE DoneSum(_, _)
DoneSum(js, field) ==
    IF js = << >> THEN 0
    ELSE (IF Head(js).Status = StatusDone THEN Head(js)[field] ELSE 0)
         + DoneSum(Tail(js), field)

Finished == {j \in 1..Len(cmd.jobs) : CmdTerminal(j)}

\* C37: the loop's counter of finished jobs never exceeds the number of
\* jobs that are Done or Failed, and when the loop is left every added job
\* is Done or Failed and the totals are the sums over the jobs, each
\* counted once.
C37_EachJobCountedOnce ==
    /\ cmd.done <= Cardinality(Finished)
    /\ cmd.pc = "summary" =>
          /\ Finished = 1..cmd.target
          /\ cmd.errorCount =
                Cardinality({j \in Finished : cmd.jobs[j].Status = StatusFailed})
          /\ cmd.processedCount =
                Cardinality({j \in Finished : cmd.jobs[j].Status = StatusDone})
          /\ cmd.totalBefore = DoneSum(cmd.jobs, "OriginalSize")
          /\ cmd.totalAfter = DoneSum(cmd.jobs, "CompressedSize")
          /\ cmd.totalSaved = DoneSum(cmd.jobs, "SavedBytes")

\* every worker is through with its job and nothing is left in the update
\* buffer: no update will come any more
Quiet ==
    /\ cmd.todo = << >>
    /\ \A j \in 1..Len(cmd.jobs) : cmd.pos[j] = "end"
    /\ cmd.updates = << >>

\* C38: the compress run always terminates: once every added job is Done
\* or Failed the loop over the update stream exits and Stop is called, also
\* when updates were dropped on a full buffer. The loop is therefore never
\* left receiving, short of its target, on a stream on which no update
\* will come any more.
C38_LoopNeverStuck == ~(cmd.pc = "drain" /\ Quiet)

----------------------------------------------------------------------------
(* Every job is processed; dispatch after Stop *)

\* C39: in a Pipeline that is started at some time, on which Stop is never
\* called and which from some time on is not paused, every job AddFiles
\* creates becomes Done or Failed, the jobs whose enqueueing was left to a
\* feeder and the jobs added while the Pipeline was paused included.
C39_EveryJobFinishes ==
    (<>started /\ [](stopPc = "none") /\ <>[](~isPaused)) =>
        \A j \in 1..MaxJobs :
            [](j \in JobIds(jobs) =>
                 <>( /\ j \in JobIds(jobs)
                     /\ jobs[j].Status \in {StatusDone, StatusFailed} ))

\* a job was added to a paused Pipeline whose queue was full: it is Pending
\* and its feeder has not delivered it
C39_Witness ==
    /\ started
    /\ isPaused
    /\ stopPc = "none"
    /\ \E j \in overflow : jobs[j].Status = StatusPending

\* C40: once Stop has raised the cancellation signal no job moves from
\* Pending to Processing: a worker that finds the signal raised and a job
\* in the queue exits and leaves the job in the queue.
C40_NoDispatchAfterCancel ==
    [][ cancelled =>
          /\ \A j \in JobIds(jobs) :
                jobs[j].Status = StatusPending => jobs'[j].Status = StatusPending
          /\ queue' = queue \/ Len(queue') > Len(queue)
      ]_vars

====
